---------------------------- MODULE Spec2Model ----------------------------
(***************************************************************************)
(* A model of objcurses: the character-cell frame buffer with its depth    *)
(* test (entities/rendering/buffer.h), the orbital camera and the mesh     *)
(* set-up transforms as main.cpp drives them, the colour registration of   *)
(* init_colors and the main render loop of main.cpp.                       *)
(*                                                                         *)
(* Floats are fixed-point integers: a logical coordinate or a depth v      *)
(* stands for v / Unit.  The three non-finite floats are the integers Inf, *)
(* NegInf and NaN, handled by FDiv, FAdd, FSub and Less as IEEE-754 does.  *)
(* An optional<int> is a sequence of length 0 (nullopt) or 1.              *)
(***************************************************************************)
EXTENDS Integers, Sequences, FiniteSets

VARIABLES
    buf,        \* Buffer: [x, y, logical_x, logical_y, pixels]
    drawn,      \* the draw_projection calls made since the last clear()
    touched,    \* the cells (column, row, index) the last draw_projection used
    nan_int,    \* what this build converts a non-finite float to
    args,       \* main: the Args parse_args returned
    cam,        \* main: Camera [azimuth, altitude, zoom]
    rotate,     \* main: the animation flag
    ch,         \* main: the key getch() returned last
    pc,         \* main: the statement it is at
    loaded,     \* the mesh of the input file, as obj.load read it
    obj,        \* main: Object [vertices, faces, materials]
    calls,      \* the calls main has made that change obj, in order
    termcap,    \* the terminal: [has_colors, can_change_color, colors, pairs]
    curses,     \* ncurses: [COLORS, COLOR_PAIRS, palette, pairs]
    stdscr,     \* ncurses: the size of stdscr, [rows, cols]
    rows,       \* main: rows
    cols,       \* main: cols
    hud,        \* main: the HUD flag
    screen,     \* what the last frame wrote to the terminal
    frames      \* the frames started

(***************************************************************************)
(* Bounds of the model.                                                    *)
(***************************************************************************)
Unit == 12
MaxDraws == 2
UBig == 50
Decimal == 10
MaxAzimuth == 50
MaxZoom == 12
MaxFrames == 2

(***************************************************************************)
(* Floats.                                                                 *)
(***************************************************************************)
FLT_MAX == 1000000
Inf == FLT_MAX + 1
NegInf == 0 - Inf
NaN == FLT_MAX + 2

Finite(a) == a >= 0 - FLT_MAX /\ a =< FLT_MAX

Min(a, b) == IF a < b THEN a ELSE b
Max(a, b) == IF a > b THEN a ELSE b

\* a / b on finite floats: the quotient rounded down; a division by zero
\* gives an infinity of the sign of a, and 0 / 0 gives NaN.
FDiv(a, b) ==
    IF b = 0 THEN (IF a > 0 THEN Inf ELSE IF a < 0 THEN NegInf ELSE NaN)
    ELSE a \div b

\* a + b and a - b where a is finite and b may be non-finite.
FAdd(a, b) == IF Finite(b) THEN a + b ELSE b

FSub(a, b) ==
    IF b = NaN THEN NaN
    ELSE IF b = Inf THEN NegInf
    ELSE IF b = NegInf THEN Inf
    ELSE a - b

\* a < b on floats: false as soon as one side is NaN.
Less(a, b) == a # NaN /\ b # NaN /\ a < b

\* std::min and std::max on floats.
FMin(a, b) == IF Less(b, a) THEN b ELSE a
FMax(a, b) == IF Less(a, b) THEN b ELSE a

(***************************************************************************)
(* Pixel.                                                                  *)
(***************************************************************************)
\* Mutants: an empty pixel at depth 0, and a constructor that drops the depth.
PixelEmpty_DepthZero == [z |-> 0, c |-> " ", material |-> << >>]
PixelOf_DepthDropped(z, c, material) == [z |-> FLT_MAX, c |-> c, material |-> material]

PixelEmpty == [z |-> FLT_MAX, c |-> " ", material |-> << >>]

PixelOf(z, c, material) == [z |-> z, c |-> c, material |-> material]

(***************************************************************************)
(* Projection: three screen-space vertices [x, y, z] and a character.      *)
(***************************************************************************)
Vec3(x, y, z) == [x |-> x, y |-> y, z |-> z]

Projection(p1, p2, p3, color) == [p1 |-> p1, p2 |-> p2, p3 |-> p3, color |-> color]

\* The same triangle with its vertices in ascending x (a stable insertion).
sort_x(p) ==
    LET a == IF p.p2.x < p.p1.x THEN p.p2 ELSE p.p1
        b == IF p.p2.x < p.p1.x THEN p.p1 ELSE p.p2
        c == p.p3
    IN  IF c.x < a.x THEN Projection(c, a, b, p.color)
        ELSE IF c.x < b.x THEN Projection(a, c, b, p.color)
        ELSE Projection(a, b, c, p.color)

\* The y of the edge from a to b at x, by linear interpolation.
edge_y(a, b, x) == FAdd(a.y, FDiv((b.y - a.y) * (x - a.x), b.x - a.x))

\* Of a triangle sorted by x: the y at x of the long edge p1-p3, and of the
\* short edge active at x (p1-p2 up to p2.x, p2-p3 after it).
long_y(p, x) == edge_y(p.p1, p.p3, x)
short_y(p, x) == IF x =< p.p2.x THEN edge_y(p.p1, p.p2, x) ELSE edge_y(p.p2, p.p3, x)

\* The lower and the upper y bound of the triangle at x.
limit_y1(p, x) == FMin(long_y(p, x), short_y(p, x))
limit_y2(p, x) == FMax(long_y(p, x), short_y(p, x))

\* The face normal in screen space: (p2 - p1) x (p3 - p1).
normal(p) ==
    LET ux == p.p2.x - p.p1.x
        uy == p.p2.y - p.p1.y
        uz == p.p2.z - p.p1.z
        vx == p.p3.x - p.p1.x
        vy == p.p3.y - p.p1.y
        vz == p.p3.z - p.p1.z
    IN  Vec3(uy * vz - uz * vy, uz * vx - ux * vz, ux * vy - uy * vx)

(***************************************************************************)
(* Buffer.                                                                 *)
(***************************************************************************)
Buffer(x, y, logical_x, logical_y) ==
    [x |-> x, y |-> y,
     logical_x |-> logical_x, logical_y |-> logical_y,
     dx |-> FDiv(logical_x, x), dy |-> FDiv(logical_y, y),
     pixels |-> [i \in 0 .. (x * y - 1) |-> PixelEmpty]]

clear(b) == [b EXCEPT !.pixels = [i \in DOMAIN b.pixels |-> PixelEmpty]]

\* Column and row of a logical coordinate (row 0 is the top of the screen).
\* The conversion of a non-finite float to int is undefined: it gives ub.
index_x(b, real_x, ub) ==
    IF Finite(real_x) THEN (real_x + b.logical_x \div 2) \div b.dx ELSE ub
index_y(b, real_y, ub) ==
    IF Finite(real_y) THEN (b.logical_y \div 2 - real_y) \div b.dy ELSE ub

\* The logical coordinates of the centre of a cell.
cell_x(b, pixel_x) == pixel_x * b.dx + b.dx \div 2 - b.logical_x \div 2
cell_y(b, pixel_y) == b.logical_y \div 2 - pixel_y * b.dy - b.dy \div 2

\* The depth of the triangle's plane at a cell: from the plane equation
\* n . (q - p1) = 0 solved for z.
depth(b, p, n, pixel_x, pixel_y) ==
    FSub(p.p1.z,
         FDiv(n.x * (cell_x(b, pixel_x) - p.p1.x) + n.y * (cell_y(b, pixel_y) - p.p1.y),
              n.z))

\* Mutant: the x-span as it is, not clamped to the buffer.
columns_Unclamped(b, s, ub) == index_x(b, s.p1.x, ub) .. index_x(b, s.p3.x, ub)

\* The columns draw_projection sweeps: the x-span of the sorted triangle,
\* clamped to the buffer's columns.
columns(b, s, ub) ==
    Max(0, index_x(b, s.p1.x, ub)) .. Min(b.x - 1, index_x(b, s.p3.x, ub))

\* The rows it fills in a column: the y-span of the triangle at the centre
\* of the column, clamped to the buffer's rows.
rows_of(b, s, pixel_x, ub) ==
    Max(0, index_y(b, limit_y2(s, cell_x(b, pixel_x)), ub))
        .. Min(b.y - 1, index_y(b, limit_y1(s, cell_x(b, pixel_x)), ub))

\* The cells draw_projection uses, each with the depth it computes there.
cells(b, projection, ub) ==
    LET s == sort_x(projection)
        n == normal(s)
    IN  { [x |-> px, y |-> py, i |-> py * b.x + px, z |-> depth(b, s, n, px, py)] :
            <<px, py>> \in UNION { {<<cx, cy>> : cy \in rows_of(b, s, cx, ub)} :
                                    cx \in columns(b, s, ub) } }

\* draw_projection: a cell the triangle covers is overwritten when the depth
\* of the triangle there is strictly less than the depth stored.
draw_projection(b, projection, c, material, ub) ==
    LET cs == cells(b, projection, ub)
    IN  [b EXCEPT !.pixels =
            [i \in DOMAIN b.pixels |->
                LET hit == {k \in cs : k.i = i}
                IN  IF hit # {} /\ Less((CHOOSE k \in hit : TRUE).z, b.pixels[i].z)
                    THEN PixelOf((CHOOSE k \in hit : TRUE).z, c, <<material>>)
                    ELSE b.pixels[i]]]

(***************************************************************************)
(* The buffer main constructs for a terminal of rows x cols characters.    *)
(***************************************************************************)
CHAR_ASPECT_RATIO == 2
logical_y == 2 * Unit

logical_x_of(nrows, ncols) == FDiv(logical_y * ncols, nrows * CHAR_ASPECT_RATIO)

NewBuffer(nrows, ncols) == Buffer(ncols, nrows, logical_x_of(nrows, ncols), logical_y)

(***************************************************************************)
(* SpecDraw: a buffer and the draw_projection calls of one frame.          *)
(***************************************************************************)
\* Terminal sizes [rows, cols].
TermSizes == { [rows |-> 2, cols |-> 3], [rows |-> 2, cols |-> 2] }

\* What the conversion of a non-finite float to int may give.
UBInts == {0 - UBig, 0, UBig}

\* Screen-space outlines, in units of 1/12: the two halves of a 3 x 2 screen,
\* a triangle that leaves the screen on the right, and one whose vertices lie
\* on a line.
Shapes ==
    { << <<-9, 12>>, <<9, 12>>, <<9, -12>> >>,
      << <<9, -12>>, <<-9, -12>>, <<-9, 12>> >>,
      << <<0, 12>>, <<21, 0>>, <<0, -12>> >>,
      << <<-9, 12>>, <<0, 0>>, <<9, -12>> >> }

\* The depths of the three vertices: flat at 1.0, flat at 2.0, slanted.
DepthProfiles == { <<12, 12, 12>>, <<24, 24, 24>>, <<6, 12, 30>> }

Projections ==
    { Projection(Vec3(s[1][1], s[1][2], d[1]), Vec3(s[2][1], s[2][2], d[2]),
                 Vec3(s[3][1], s[3][2], d[3]), "?") :
        s \in Shapes, d \in DepthProfiles }

\* The character and the material a triangle is drawn with.
Styles == { [c |-> "#", material |-> 0], [c |-> ".", material |-> 1] }

varsDraw == <<buf, drawn, touched, nan_int>>

\* SpecDraw and SpecClip leave the variables of main alone.
varsProgram ==
    <<args, cam, rotate, ch, pc, loaded, obj, calls, termcap, curses, stdscr, rows, cols,
      hud, screen, frames>>

NoProgram ==
    /\ args = [zoom |-> 0] /\ cam = [zoom |-> 0] /\ rotate = FALSE /\ ch = "ERR"
    /\ pc = "none" /\ loaded = << >> /\ obj = << >> /\ calls = << >>
    /\ termcap = << >> /\ curses = << >> /\ stdscr = << >> /\ rows = 0 /\ cols = 0
    /\ hud = FALSE /\ screen = << >> /\ frames = 0

InitDraw ==
    /\ \E t \in TermSizes : buf = NewBuffer(t.rows, t.cols)
    /\ nan_int \in UBInts
    /\ drawn = << >>
    /\ touched = {}
    /\ NoProgram

Clear ==
    /\ drawn # << >>
    /\ buf' = clear(buf)
    /\ drawn' = << >>
    /\ touched' = {}
    /\ UNCHANGED <<nan_int, varsProgram>>

DrawOne(p, c, material) ==
    /\ buf' = draw_projection(buf, p, c, material, nan_int)
    /\ drawn' = Append(drawn, [p |-> p, c |-> c, material |-> material])
    /\ touched' = { <<k.x, k.y, k.i>> : k \in cells(buf, p, nan_int) }
    /\ UNCHANGED <<nan_int, varsProgram>>

Draw ==
    /\ Len(drawn) < MaxDraws
    /\ \E p \in Projections, st \in Styles : DrawOne(p, st.c, st.material)

NextDraw == Clear \/ Draw

SpecDraw == InitDraw /\ [][NextDraw]_<<varsDraw, varsProgram>>

(***************************************************************************)
(* Claims about the depth test, checked under SpecDraw.                    *)
(***************************************************************************)
\* The pixel grid a cleared copy of b holds after the draws of ds, in order.
RECURSIVE DrawAll(_, _, _)
DrawAll(b, ds, n) ==
    IF n > Len(ds) THEN b
    ELSE DrawAll(draw_projection(b, ds[n].p, ds[n].c, ds[n].material, nan_int), ds, n + 1)

\* The depth draw d computes at cell i: a set, empty when d does not cover i.
DepthsAt(d, i) == { k.z : k \in { k \in cells(buf, d.p, nan_int) : k.i = i } }

\* The same for every draw since the last clear(): CoverMap[j][i].
CoverMap ==
    [j \in 1 .. Len(drawn) |->
        LET cs == cells(buf, drawn[j].p, nan_int)
        IN  [i \in DOMAIN buf.pixels |-> { k.z : k \in { k \in cs : k.i = i } }]]

\* Two draws tie at cell i when both cover it with the same depth.
Tie(cm, i) == cm[1][i] \cap cm[2][i] # {}

\* A triangle of non-zero area on the screen.
Proper(p) == normal(p).z # 0

\* C1 as stated, for triangles of non-zero area: two of them drawn into a
\* cleared buffer in the order A, B and in the order B, A give the same pixel
\* grid, in every cell.
C1_OrderIndependent ==
    (Len(drawn) = 2 /\ Proper(drawn[1].p) /\ Proper(drawn[2].p)) =>
        buf.pixels = DrawAll(clear(buf), <<drawn[2], drawn[1]>>, 1).pixels

\* C1 as amended: in either order every cell holds the same depth, and the
\* same character and material in every cell where the two triangles do not
\* have the same depth.
C1_OrderIndependentUpToTies ==
    Len(drawn) = 2 =>
        LET other == DrawAll(clear(buf), <<drawn[2], drawn[1]>>, 1).pixels
            cm == CoverMap
        IN  \A i \in DOMAIN buf.pixels :
                /\ buf.pixels[i].z = other[i].z
                /\ ~Tie(cm, i) => buf.pixels[i] = other[i]

\* C1's case: two triangles of different characters overlap in a cell where
\* their depths differ, and the one drawn second is the nearer.
C1_Witness ==
    /\ Len(drawn) = 2
    /\ drawn[1].c # drawn[2].c
    /\ \E i \in DOMAIN buf.pixels :
            \E z1 \in DepthsAt(drawn[1], i), z2 \in DepthsAt(drawn[2], i) :
                /\ Less(z2, z1) /\ Less(z1, FLT_MAX)
                /\ buf.pixels[i].c = drawn[2].c

\* The draws of cover map cm that cover cell i with a depth nearer than the
\* empty sentinel.
Covering(cm, i) == { j \in DOMAIN cm : \E z \in cm[j][i] : Less(z, FLT_MAX) }

DepthOf(cm, j, i) == CHOOSE z \in cm[j][i] : TRUE

\* C2, the state: between two clear() calls an uncovered cell is empty and a
\* covered cell holds the depth, character and material of a triangle of the
\* smallest depth among those that cover it.
C2_NearestShown ==
    LET cm == CoverMap
    IN  \A i \in DOMAIN buf.pixels :
            IF Covering(cm, i) = {} THEN buf.pixels[i] = PixelEmpty
            ELSE \E j \in Covering(cm, i) :
                    /\ \A k \in Covering(cm, i) : DepthOf(cm, j, i) =< DepthOf(cm, k, i)
                    /\ buf.pixels[i] =
                         PixelOf(DepthOf(cm, j, i), drawn[j].c, <<drawn[j].material>>)

\* C2, the step: a draw_projection call changes a cell only by writing the
\* depth, character and material of its triangle there, and only when that
\* depth is strictly less than the depth stored; no stored depth increases.
C2_DrawStep ==
    Len(drawn') = Len(drawn) + 1 =>
        LET d == drawn'[Len(drawn')]
        IN  \A i \in DOMAIN buf.pixels :
                \/ buf'.pixels[i] = buf.pixels[i]
                \/ \E z \in DepthsAt(d, i) :
                        /\ z < buf.pixels[i].z
                        /\ buf'.pixels[i] = PixelOf(z, d.c, <<d.material>>)

\* C2: nearest-wins compositing.
C2_NearestWins == [](C2_NearestShown) /\ [][C2_DrawStep]_<<varsDraw, varsProgram>>

\* C2's case: a triangle at depth 2.0 is drawn first and one at depth 1.0
\* second over the same cell, which shows the second.
C2_Witness ==
    /\ Len(drawn) = 2
    /\ drawn[1].c # drawn[2].c
    /\ \E i \in DOMAIN buf.pixels :
            /\ DepthsAt(drawn[1], i) = {2 * Unit}
            /\ DepthsAt(drawn[2], i) = {Unit}
            /\ buf.pixels[i] = PixelOf(Unit, drawn[2].c, <<drawn[2].material>>)

(***************************************************************************)
(* SpecClip: one draw_projection call of any triangle over a grid of       *)
(* vertices that reaches far outside the screen on every side.             *)
(***************************************************************************)
ClipSizes == TermSizes \cup { [rows |-> 1, cols |-> 1], [rows |-> 3, cols |-> 2] }

ClipXs == {-21, -9, 0, 5, 21}
ClipYs == {-30, -12, 3, 30}

ClipPoints == { Vec3(x, y, Unit) : x \in ClipXs, y \in ClipYs }

InitClip ==
    /\ \E t \in ClipSizes : buf = NewBuffer(t.rows, t.cols)
    /\ nan_int \in UBInts
    /\ drawn = << >>
    /\ touched = {}
    /\ NoProgram

ClipDraw ==
    /\ drawn = << >>
    /\ \E p1 \in ClipPoints, p2 \in ClipPoints, p3 \in ClipPoints :
            DrawOne(Projection(p1, p2, p3, "?"), "#", 0)

NextClip == ClipDraw \/ Clear

SpecClip == InitClip /\ [][NextClip]_<<varsDraw, varsProgram>>

\* A point outside the logical area of the buffer.
Outside(v) ==
    \/ 2 * v.x < 0 - buf.logical_x \/ 2 * v.x > buf.logical_x
    \/ 2 * v.y < 0 - buf.logical_y \/ 2 * v.y > buf.logical_y

\* C8: every column draw_projection uses lies in [0, x-1], every row in
\* [0, y-1] and every pixel index in [0, x*y-1], whatever the triangle.
C8_InRange ==
    \A t \in touched :
        /\ 0 =< t[1] /\ t[1] =< buf.x - 1
        /\ 0 =< t[2] /\ t[2] =< buf.y - 1
        /\ 0 =< t[3] /\ t[3] =< buf.x * buf.y - 1
        /\ t[3] \in DOMAIN buf.pixels

\* C8's case: a triangle with all three vertices outside the logical area
\* has been drawn and covers cells of the grid.
C8_Witness ==
    /\ Len(drawn) = 1
    /\ Outside(drawn[1].p.p1) /\ Outside(drawn[1].p.p2) /\ Outside(drawn[1].p.p3)
    /\ touched # {}

(***************************************************************************)
(* The command line.  A token is a sequence of characters; a number is     *)
(* read in units of 1/Decimal.                                             *)
(***************************************************************************)
IsDigit(c) == c \in {"0", "1", "2", "3", "4", "5", "6", "7", "8", "9"}

DigitVal(c) ==
    CASE c = "0" -> 0 [] c = "1" -> 1 [] c = "2" -> 2 [] c = "3" -> 3 [] c = "4" -> 4
      [] c = "5" -> 5 [] c = "6" -> 6 [] c = "7" -> 7 [] c = "8" -> 8 [] c = "9" -> 9

\* The index after the run of digits of t that starts at i.
RECURSIVE digits_end(_, _)
digits_end(t, i) == IF i =< Len(t) /\ IsDigit(t[i]) THEN digits_end(t, i + 1) ELSE i

\* The value of the digits t[i] .. t[j-1].
RECURSIVE digits_value(_, _, _, _)
digits_value(t, i, j, acc) ==
    IF i >= j THEN acc ELSE digits_value(t, i + 1, j, acc * 10 + DigitVal(t[i]))

\* std::stof on a token of signs, digits, points and other characters: an
\* optional sign, digits, an optional point and digits, with at least one
\* digit; ok is false when it throws, pos is the number of characters read.
stof(t) ==
    LET s == IF Len(t) >= 1 /\ t[1] \in {"-", "+"} THEN 2 ELSE 1
        e1 == digits_end(t, s)
        dot == e1 =< Len(t) /\ t[e1] = "."
        e2 == IF dot THEN digits_end(t, e1 + 1) ELSE e1
        nfrac == IF dot THEN e2 - e1 - 1 ELSE 0
        ok == (e1 - s) + nfrac >= 1
        mag == digits_value(t, s, e1, 0) * Decimal
               + (IF nfrac >= 1 THEN (DigitVal(t[e1 + 1]) * Decimal) \div 10 ELSE 0)
    IN  [ok |-> ok, pos |-> e2 - 1,
         v |-> IF Len(t) >= 1 /\ t[1] = "-" THEN 0 - mag ELSE mag]

\* safe_stof: nullopt when stof throws or leaves characters unread.
safe_stof(token) ==
    LET r == stof(token)
    IN  IF ~r.ok THEN << >>
        ELSE IF r.pos # Len(token) THEN << >>
        ELSE <<r.v>>

ANIMATION_STEP == 300
ZOOM_START == 10

ArgsDefault ==
    [input_file |-> << >>, color_support |-> FALSE, static_light |-> FALSE,
     flip_faces |-> FALSE, invert_x |-> FALSE, invert_y |-> FALSE, invert_z |-> FALSE,
     animate |-> FALSE, speed |-> ANIMATION_STEP, zoom |-> ZOOM_START]

Exit(code) == [exit |-> TRUE, code |-> code, a |-> ArgsDefault]
Parsed(a) == [exit |-> FALSE, code |-> 0, a |-> a]

\* The options, as character sequences.
Opt_h == <<"-", "h">>
Opt_help == <<"-", "-", "h", "e", "l", "p">>
Opt_v == <<"-", "v">>
Opt_version == <<"-", "-", "v", "e", "r", "s", "i", "o", "n">>
Opt_c == <<"-", "c">>
Opt_color == <<"-", "-", "c", "o", "l", "o", "r">>
Opt_l == <<"-", "l">>
Opt_light == <<"-", "-", "l", "i", "g", "h", "t">>
Opt_a == <<"-", "a">>
Opt_animate == <<"-", "-", "a", "n", "i", "m", "a", "t", "e">>
Opt_z == <<"-", "z">>
Opt_zoom == <<"-", "-", "z", "o", "o", "m">>
Opt_flip == <<"-", "-", "f", "l", "i", "p">>
Opt_invert_x == <<"-", "-", "i", "n", "v", "e", "r", "t", "-", "x">>
Opt_invert_y == <<"-", "-", "i", "n", "v", "e", "r", "t", "-", "y">>
Opt_invert_z == <<"-", "-", "i", "n", "v", "e", "r", "t", "-", "z">>

\* parse_args from argv[i] on (argv[0], the program's name, is left out).
RECURSIVE parse_from(_, _, _)
parse_from(argv, i, a) ==
    IF i > Len(argv)
    THEN IF a.input_file = << >> THEN Exit(1) ELSE Parsed(a)
    ELSE
    LET arg == argv[i]
    IN  IF arg \in {Opt_h, Opt_help} THEN Exit(0)
        ELSE IF arg \in {Opt_v, Opt_version} THEN Exit(0)
        ELSE IF arg \in {Opt_c, Opt_color}
        THEN parse_from(argv, i + 1, [a EXCEPT !.color_support = TRUE])
        ELSE IF arg \in {Opt_l, Opt_light}
        THEN parse_from(argv, i + 1, [a EXCEPT !.static_light = TRUE])
        ELSE IF arg \in {Opt_a, Opt_animate}
        THEN IF i + 1 =< Len(argv) /\ argv[i + 1][1] # "-"
             THEN LET val == safe_stof(argv[i + 1])
                  IN  IF val = << >> THEN Exit(1)
                      ELSE parse_from(argv, i + 2,
                                      [a EXCEPT !.animate = TRUE, !.speed = val[1]])
             ELSE parse_from(argv, i + 1, [a EXCEPT !.animate = TRUE])
        ELSE IF arg \in {Opt_z, Opt_zoom}
        THEN IF i + 1 > Len(argv) THEN Exit(1)
             ELSE LET val == safe_stof(argv[i + 1])
                  IN  IF val = << >> THEN Exit(1)
                      ELSE parse_from(argv, i + 2, [a EXCEPT !.zoom = val[1]])
        ELSE IF arg = Opt_flip
        THEN parse_from(argv, i + 1, [a EXCEPT !.flip_faces = TRUE])
        ELSE IF arg = Opt_invert_x
        THEN parse_from(argv, i + 1, [a EXCEPT !.invert_x = TRUE])
        ELSE IF arg = Opt_invert_y
        THEN parse_from(argv, i + 1, [a EXCEPT !.invert_y = TRUE])
        ELSE IF arg = Opt_invert_z
        THEN parse_from(argv, i + 1, [a EXCEPT !.invert_z = TRUE])
        ELSE IF arg[1] # "-"
        THEN IF a.input_file # << >> THEN Exit(1)
             ELSE parse_from(argv, i + 1, [a EXCEPT !.input_file = arg])
        ELSE Exit(1)

parse_args(argv) == parse_from(argv, 1, ArgsDefault)

(***************************************************************************)
(* Camera.  Angles are in units of 1/Decimal degree, zoom in 1/Decimal.    *)
(***************************************************************************)
ANGLE_STEP == 50
RIGHT_ANGLE == 900
ALTITUDE_MAX == 890
ZOOM_STEP == 1
ZOOM_MIN == 1

Camera(zoom) == [azimuth |-> 0, altitude |-> 0, zoom |-> zoom]

rotate_left(c, angle) == [c EXCEPT !.azimuth = @ + angle]
rotate_right(c, angle) == [c EXCEPT !.azimuth = @ - angle]

rotate_up(c, angle) == [c EXCEPT !.altitude = Min(@ + angle, ALTITUDE_MAX)]
rotate_down(c, angle) == [c EXCEPT !.altitude = Max(@ - angle, 0 - ALTITUDE_MAX)]

zoom_in(c) == [c EXCEPT !.zoom = Max(@ + ZOOM_STEP, ZOOM_MIN)]
zoom_out(c) == [c EXCEPT !.zoom = Max(@ - ZOOM_STEP, ZOOM_MIN)]

\* The keys getch() may return.
LeftKeys == {"KEY_LEFT", "h", "H", "a", "A"}
RightKeys == {"KEY_RIGHT", "l", "L", "d", "D"}
UpKeys == {"KEY_UP", "k", "K", "w", "W"}
DownKeys == {"KEY_DOWN", "j", "J", "s", "S"}
ZoomInKeys == {"+", "=", "i", "I"}
ZoomOutKeys == {"-", "o", "O"}
\* Mutant: the break after rotate_right is missing, and control falls into
\* the rotate_up case.
handle_control_Fallthrough(key, c) ==
    IF key \in LeftKeys THEN rotate_left(c, ANGLE_STEP)
    ELSE IF key \in RightKeys THEN rotate_up(rotate_right(c, ANGLE_STEP), ANGLE_STEP)
    ELSE IF key \in UpKeys THEN rotate_up(c, ANGLE_STEP)
    ELSE IF key \in DownKeys THEN rotate_down(c, ANGLE_STEP)
    ELSE IF key \in ZoomInKeys THEN zoom_in(c)
    ELSE IF key \in ZoomOutKeys THEN zoom_out(c)
    ELSE c

handle_control(key, c) ==
    IF key \in LeftKeys THEN rotate_left(c, ANGLE_STEP)
    ELSE IF key \in RightKeys THEN rotate_right(c, ANGLE_STEP)
    ELSE IF key \in UpKeys THEN rotate_up(c, ANGLE_STEP)
    ELSE IF key \in DownKeys THEN rotate_down(c, ANGLE_STEP)
    ELSE IF key \in ZoomInKeys THEN zoom_in(c)
    ELSE IF key \in ZoomOutKeys THEN zoom_out(c)
    ELSE c

(***************************************************************************)
(* SpecCamera: the camera as main constructs and drives it.                *)
(***************************************************************************)
File == <<"m", ".", "o", "b", "j">>

\* Command lines that differ in the zoom option.
CameraArgvs ==
    { <<File>>, <<File, Opt_a>>, <<Opt_zoom, <<"0">>, File>>, <<Opt_z, <<"-", "2">>, File>>,
      <<Opt_z, <<".", "5">>, File>>, <<Opt_a, File>>, <<Opt_z, <<"2", "x">>, File>>,
      <<Opt_z, <<"-">>, File>>, <<File, Opt_z>> }

\* The keys the model presses, at least one of every case of handle_control.
CameraKeys == {"KEY_LEFT", "l", "KEY_UP", "w", "j", "+", "o", "x"}

\* Seconds between two frames, in units of 1/Decimal.
FrameTimes == {0, 1}

varsCamera == <<args, cam, rotate, ch>>

\* SpecCamera leaves every other variable alone.
varsNoCamera ==
    <<buf, drawn, touched, nan_int, pc, loaded, obj, calls, termcap, curses, stdscr,
      rows, cols, hud, screen, frames>>

NoCamera ==
    /\ buf = << >> /\ drawn = << >> /\ touched = {} /\ nan_int = 0
    /\ pc = "none" /\ loaded = << >> /\ obj = << >> /\ calls = << >>
    /\ termcap = << >> /\ curses = << >> /\ stdscr = << >> /\ rows = 0 /\ cols = 0
    /\ hud = FALSE /\ screen = << >> /\ frames = 0

\* The bounds of the model on the unbounded fields of the camera.
CameraBounded(c) ==
    /\ c.azimuth >= 0 - MaxAzimuth /\ c.azimuth =< MaxAzimuth
    /\ c.zoom =< MaxZoom

InitCamera ==
    /\ \E argv \in CameraArgvs :
        /\ ~parse_args(argv).exit
        /\ args = parse_args(argv).a
    /\ cam = Camera(args.zoom)
    /\ rotate = args.animate
    /\ ch = "ERR"
    /\ NoCamera

\* if (rotate) cam.rotate_left(args.speed * dt)
Animated(c, dt) == IF rotate THEN rotate_left(c, (args.speed * dt) \div Decimal) ELSE c

CameraAnimate ==
    /\ rotate
    /\ \E dt \in FrameTimes : cam' = Animated(cam, dt)
    /\ CameraBounded(cam')
    /\ UNCHANGED <<args, rotate, ch, varsNoCamera>>

\* if (ch != ERR) { rotate = false; handle_control(ch, cam); }
CameraKey ==
    /\ \E key \in CameraKeys :
        /\ ch' = key
        /\ cam' = handle_control(key, cam)
    /\ CameraBounded(cam')
    /\ rotate' = FALSE
    /\ UNCHANGED <<args, varsNoCamera>>

NextCamera == CameraAnimate \/ CameraKey

SpecCamera == InitCamera /\ [][NextCamera]_<<varsCamera, varsNoCamera>>

\* C4, the state: the altitude lies strictly between -90 and +90 degrees.
C4_AltitudeInside == cam.altitude > 0 - RIGHT_ANGLE /\ cam.altitude < RIGHT_ANGLE

\* C4, the step: a left or right key, and a frame of the animation, change
\* neither the altitude nor the zoom.
C4_AzimuthOnly ==
    (ch' \in LeftKeys \cup RightKeys \/ (rotate /\ rotate'))
        => cam'.altitude = cam.altitude /\ cam'.zoom = cam.zoom

\* C4: the camera's altitude stays strictly inside (-90, +90) degrees, and
\* rotate_left and rotate_right change only the azimuth.
C4_AltitudeClamped == [](C4_AltitudeInside) /\ [][C4_AzimuthOnly]_<<varsCamera, varsNoCamera>>

\* C4's case: an up key was pressed and the clamp cut the altitude.
C4_Witness == ch \in UpKeys /\ cam.altitude = ALTITUDE_MAX

\* C5: the zoom of the camera is strictly positive.
C5_ZoomPositive == cam.zoom > 0

(***************************************************************************)
(* Object: vertices [x, y, z], faces [v, material] with v a triple of      *)
(* vertex indices and material an optional index, and the diffuse colours  *)
(* of the materials, in thousandths.                                       *)
(***************************************************************************)
SetMin(S) == CHOOSE m \in S : \A k \in S : m =< k
SetMax(S) == CHOOSE m \in S : \A k \in S : m >= k

\* The fixed reference length of normalize, and the factor of main's scale.
REFERENCE_LENGTH == 1
SCALE_FACTOR == 3

\* normalize: the centre of the bounding box moves to the origin and the
\* longest side of the box becomes REFERENCE_LENGTH (in units of 1/Unit); a
\* mesh without extent is only centred.
normalize(o) ==
    LET n == Len(o.vertices)
        lo(f) == SetMin({o.vertices[i][f] : i \in 1 .. n})
        hi(f) == SetMax({o.vertices[i][f] : i \in 1 .. n})
        longest == SetMax({hi("x") - lo("x"), hi("y") - lo("y"), hi("z") - lo("z")})
        co(i, f) ==
            IF longest = 0 THEN 0
            ELSE ((2 * o.vertices[i][f] - (lo(f) + hi(f))) * REFERENCE_LENGTH * Unit)
                    \div (2 * longest)
    IN  IF n = 0 THEN o
        ELSE [o EXCEPT !.vertices = [i \in 1 .. n |-> Vec3(co(i, "x"), co(i, "y"), co(i, "z"))]]

scale(o, factor) ==
    [o EXCEPT !.vertices =
        [i \in DOMAIN o.vertices |->
            Vec3(o.vertices[i].x * factor, o.vertices[i].y * factor, o.vertices[i].z * factor)]]

\* The face with its vertex order reversed.
reversed(f) == [f EXCEPT !.v = <<f.v[3], f.v[2], f.v[1]>>]

flip_faces(o) == [o EXCEPT !.faces = [i \in DOMAIN o.faces |-> reversed(o.faces[i])]]

invert_x(o) ==
    flip_faces([o EXCEPT !.vertices = [i \in DOMAIN o.vertices |-> [o.vertices[i] EXCEPT !.x = 0 - @]]])
invert_y(o) ==
    flip_faces([o EXCEPT !.vertices = [i \in DOMAIN o.vertices |-> [o.vertices[i] EXCEPT !.y = 0 - @]]])
invert_z(o) ==
    flip_faces([o EXCEPT !.vertices = [i \in DOMAIN o.vertices |-> [o.vertices[i] EXCEPT !.z = 0 - @]]])

(***************************************************************************)
(* Colours.                                                                *)
(***************************************************************************)
Clamp(v, lo, hi) == IF v < lo THEN lo ELSE IF v > hi THEN hi ELSE v

NoCurses == [COLORS |-> 0, COLOR_PAIRS |-> 0, palette |-> {}, pairs |-> {}]

\* start_color(): COLORS and COLOR_PAIRS become the terminal's.
start_color(cs, tc) == [cs EXCEPT !.COLORS = tc.colors, !.COLOR_PAIRS = tc.pairs]

init_color(cs, color, r, g, b) ==
    [cs EXCEPT !.palette = {e \in @ : e.color # color}
                              \cup {[color |-> color, r |-> r, g |-> g, b |-> b]}]

init_pair(cs, pair, fg, bg) ==
    [cs EXCEPT !.pairs = {e \in @ : e.pair # pair} \cup {[pair |-> pair, fg |-> fg, bg |-> bg]}]

\* Mutant: the loop stops one material early.
RECURSIVE init_colors_loop_OffByOne(_, _, _)
init_colors_loop_OffByOne(cs, materials, i) ==
    IF i >= Len(materials) THEN cs
    ELSE LET pair == i + 1
             d == materials[i + 1]
         IN  IF pair + 1 >= cs.COLORS \/ pair + 1 >= cs.COLOR_PAIRS THEN cs
             ELSE init_colors_loop_OffByOne(
                     init_pair(init_color(cs, pair, Clamp(d[1], 0, 1000),
                                          Clamp(d[2], 0, 1000), Clamp(d[3], 0, 1000)),
                               pair, pair, 0),
                     materials, i + 1)

\* The loop of init_colors from material i on (materials[i] is the i+1st).
RECURSIVE init_colors_loop(_, _, _)
init_colors_loop(cs, materials, i) ==
    IF i >= Len(materials) THEN cs
    ELSE LET pair == i + 1
             d == materials[i + 1]
         IN  IF pair >= cs.COLORS \/ pair >= cs.COLOR_PAIRS THEN cs
             ELSE init_colors_loop(
                     init_pair(init_color(cs, pair, Clamp(d[1], 0, 1000),
                                          Clamp(d[2], 0, 1000), Clamp(d[3], 0, 1000)),
                               pair, pair, 0),
                     materials, i + 1)

init_colors(cs, tc, materials) ==
    IF ~tc.has_colors \/ ~tc.can_change_color THEN cs
    ELSE init_colors_loop(start_color(cs, tc), materials, 0)

\* Buffer::printw: every cell's character, in the grid's order, with the
\* colour pair material + 1 when that pair is one of the available slots and
\* with the default pair 0 otherwise.
pair_of(cs, material) ==
    IF material # << >> /\ material[1] + 1 >= 1
       /\ material[1] + 1 < cs.COLORS /\ material[1] + 1 < cs.COLOR_PAIRS
    THEN material[1] + 1
    ELSE 0

printw(b, cs) ==
    [i \in DOMAIN b.pixels |-> [c |-> b.pixels[i].c, pair |-> pair_of(cs, b.pixels[i].material)]]

(***************************************************************************)
(* Renderer::render.  The camera's rotation is not computed: of every face *)
(* the renderer either culls it or draws the projection Views gives for    *)
(* it, with the face's material when colour is enabled and -1 otherwise.   *)
(***************************************************************************)
Views ==
    << Projection(Vec3(-9, 12, 12), Vec3(9, 12, 12), Vec3(9, -12, 12), "#"),
       Projection(Vec3(9, -12, 6), Vec3(-9, -12, 12), Vec3(-9, 12, 30), ".") >>

material_of(face, color_support) ==
    IF color_support /\ face.material # << >> THEN face.material[1] ELSE 0 - 1

RECURSIVE render_from(_, _, _, _, _, _)
render_from(b, o, visible, color_support, ub, i) ==
    IF i > Len(o.faces) THEN b
    ELSE render_from(
            IF i \in visible
            THEN draw_projection(b, Views[i], Views[i].color,
                                 material_of(o.faces[i], color_support), ub)
            ELSE b,
            o, visible, color_support, ub, i + 1)

render(b, o, visible, color_support, ub) == render_from(b, o, visible, color_support, ub, 1)

(***************************************************************************)
(* Spec: main, from the return of obj.load to the end of the render loop.  *)
(***************************************************************************)
Face(a, b, c, material) == [v |-> <<a, b, c>>, material |-> material]

\* A mesh of two faces and three materials; the second face uses the last.
Mesh ==
    [vertices |-> << Vec3(0, 0, 0), Vec3(4, 0, 0), Vec3(0, 2, 0), Vec3(1, 1, 2) >>,
     faces |-> << Face(1, 2, 3, <<0>>), Face(1, 3, 4, <<2>>) >>,
     materials |-> << <<1000, 0, 0>>, <<0, 1500, 0>>, <<200, 200, 0 - 100>> >>]

TermCap(h, c, n, m) == [has_colors |-> h, can_change_color |-> c, colors |-> n, pairs |-> m]

NoColour == TermCap(FALSE, FALSE, 0, 0)

TermCaps ==
    { NoColour, TermCap(TRUE, FALSE, 8, 64), TermCap(TRUE, TRUE, 8, 2),
      TermCap(TRUE, TRUE, 3, 8), TermCap(TRUE, TRUE, 8, 8) }

Size32 == [rows |-> 2, cols |-> 3]

\* The sizes the terminal takes while main runs.
MainSizes == {Size32, [rows |-> 3, cols |-> 2]}

\* The command lines with every subset of the mirroring and flip options.
RECURSIVE OptionSeq(_)
OptionSeq(S) ==
    IF S = {} THEN << >>
    ELSE LET o == CHOOSE o \in S : TRUE IN <<o>> \o OptionSeq(S \ {o})

SetupArgvs ==
    { OptionSeq(S) \o <<File>> : S \in SUBSET {Opt_flip, Opt_invert_x, Opt_invert_y, Opt_invert_z} }

\* The runs of the program the model follows: [argv, termcap, size, nan].
Runs ==
    { [argv |-> a, termcap |-> NoColour, size |-> t, nan |-> u] :
        a \in {<<File>>, <<File, Opt_a>>}, t \in MainSizes, u \in UBInts }
    \cup { [argv |-> a, termcap |-> NoColour, size |-> Size32, nan |-> 0] : a \in SetupArgvs }
    \cup { [argv |-> a, termcap |-> tc, size |-> Size32, nan |-> 0] :
            a \in {<<Opt_c, File>>, <<Opt_l, Opt_color, File>>}, tc \in TermCaps }

\* The keys the model presses in the loop, besides resize, quit and tab.
MainKeys == {"KEY_UP", "o"}

NoBuffer == Buffer(0, 0, 0, 0)
NoScreen == [cells |-> << >>, hud |-> FALSE]

vars ==
    <<buf, drawn, touched, nan_int, args, cam, rotate, ch,
      pc, loaded, obj, calls, termcap, curses, stdscr, rows, cols, hud, screen, frames>>

Init ==
    /\ \E r \in Runs :
        /\ ~parse_args(r.argv).exit
        /\ args = parse_args(r.argv).a
        /\ termcap = r.termcap
        /\ stdscr = r.size
        /\ nan_int = r.nan
    /\ loaded = Mesh
    /\ obj = loaded
    /\ calls = << >>
    /\ pc = "normalize"
    /\ curses = NoCurses
    /\ buf = NoBuffer /\ rows = 0 /\ cols = 0
    /\ cam = Camera(ZOOM_START) /\ hud = FALSE /\ rotate = FALSE /\ ch = "ERR"
    /\ screen = NoScreen
    /\ frames = 0
    /\ drawn = << >> /\ touched = {}

\* The variables the set-up of the mesh leaves alone.
SetupFrame ==
    UNCHANGED <<buf, drawn, touched, nan_int, args, cam, rotate, ch,
                loaded, termcap, curses, stdscr, rows, cols, hud, screen, frames>>

\* obj.normalize();
SetupNormalize ==
    /\ pc = "normalize"
    /\ obj' = normalize(obj)
    /\ calls' = Append(calls, "normalize")
    /\ pc' = "scale"
    /\ SetupFrame

\* obj.scale(3.0f);
SetupScale ==
    /\ pc = "scale"
    /\ obj' = scale(obj, SCALE_FACTOR)
    /\ calls' = Append(calls, "scale")
    /\ pc' = "flip_faces"
    /\ SetupFrame

\* Mutant: the faces are flipped whatever the option.
SetupFlip_Unconditional ==
    /\ pc = "flip_faces"
    /\ obj' = flip_faces(obj)
    /\ calls' = Append(calls, "flip_faces")
    /\ pc' = "invert_x"
    /\ SetupFrame

\* if (args.flip_faces) obj.flip_faces();
SetupFlip ==
    /\ pc = "flip_faces"
    /\ obj' = IF args.flip_faces THEN flip_faces(obj) ELSE obj
    /\ calls' = IF args.flip_faces THEN Append(calls, "flip_faces") ELSE calls
    /\ pc' = "invert_x"
    /\ SetupFrame

\* if (args.invert_x) obj.invert_x();
SetupInvertX ==
    /\ pc = "invert_x"
    /\ obj' = IF args.invert_x THEN invert_x(obj) ELSE obj
    /\ calls' = IF args.invert_x THEN Append(calls, "invert_x") ELSE calls
    /\ pc' = "invert_y"
    /\ SetupFrame

\* Mutant: the y option mirrors along x.
SetupInvertY_AlongX ==
    /\ pc = "invert_y"
    /\ obj' = IF args.invert_y THEN invert_x(obj) ELSE obj
    /\ calls' = IF args.invert_y THEN Append(calls, "invert_y") ELSE calls
    /\ pc' = "invert_z"
    /\ SetupFrame

\* if (args.invert_y) obj.invert_y();
SetupInvertY ==
    /\ pc = "invert_y"
    /\ obj' = IF args.invert_y THEN invert_y(obj) ELSE obj
    /\ calls' = IF args.invert_y THEN Append(calls, "invert_y") ELSE calls
    /\ pc' = "invert_z"
    /\ SetupFrame

\* if (args.invert_z) obj.invert_z();
SetupInvertZ ==
    /\ pc = "invert_z"
    /\ obj' = IF args.invert_z THEN invert_z(obj) ELSE obj
    /\ calls' = IF args.invert_z THEN Append(calls, "invert_z") ELSE calls
    /\ pc' = "init_colors"
    /\ SetupFrame

\* init_ncurses(); if (args.color_support) init_colors(obj.materials);
InitColors ==
    /\ pc = "init_colors"
    /\ curses' = IF args.color_support THEN init_colors(curses, termcap, obj.materials)
                 ELSE curses
    /\ pc' = "view"
    /\ UNCHANGED <<buf, drawn, touched, nan_int, args, cam, rotate, ch,
                   loaded, obj, calls, termcap, stdscr, rows, cols, hud, screen, frames>>

\* getmaxyx(stdscr, rows, cols); Buffer buf(cols, rows, logical_x, logical_y);
\* Camera cam(args.zoom); bool hud = false; bool rotate = args.animate;
MakeView ==
    /\ pc = "view"
    /\ rows' = stdscr.rows
    /\ cols' = stdscr.cols
    /\ buf' = NewBuffer(stdscr.rows, stdscr.cols)
    /\ cam' = Camera(args.zoom)
    /\ hud' = FALSE
    /\ rotate' = args.animate
    /\ pc' = "frame"
    /\ UNCHANGED <<drawn, touched, nan_int, args, ch,
                   loaded, obj, calls, termcap, curses, stdscr, screen, frames>>

\* The head of the loop: dt is measured and the animation turns the camera.
Frame ==
    /\ pc = "frame"
    /\ frames < MaxFrames
    /\ frames' = frames + 1
    /\ \E dt \in FrameTimes : cam' = Animated(cam, dt)
    /\ pc' = "clear"
    /\ UNCHANGED <<buf, drawn, touched, nan_int, args, rotate, ch,
                   loaded, obj, calls, termcap, curses, stdscr, rows, cols, hud, screen>>

\* Mutant: the buffer is not cleared.
ClearBuffer_Skipped ==
    /\ pc = "clear"
    /\ pc' = "render"
    /\ UNCHANGED <<buf, drawn, touched, nan_int, args, cam, rotate, ch, loaded, obj, calls,
                   termcap, curses, stdscr, rows, cols, hud, screen, frames>>

\* buf.clear();
ClearBuffer ==
    /\ pc = "clear"
    /\ buf' = clear(buf)
    /\ pc' = "render"
    /\ UNCHANGED <<drawn, touched, nan_int, args, cam, rotate, ch, loaded, obj, calls,
                   termcap, curses, stdscr, rows, cols, hud, screen, frames>>

\* Renderer::render(buf, obj, cam, light, args.static_light, args.color_support);
Render ==
    /\ pc = "render"
    /\ \E visible \in SUBSET (1 .. Len(obj.faces)) :
            buf' = render(buf, obj, visible, args.color_support, nan_int)
    /\ pc' = "printw"
    /\ UNCHANGED <<drawn, touched, nan_int, args, cam, rotate, ch, loaded, obj, calls,
                   termcap, curses, stdscr, rows, cols, hud, screen, frames>>

\* move(0, 0); buf.printw(); if (hud) render_hud(cam, fps); refresh();
Printw ==
    /\ pc = "printw"
    /\ screen' = [cells |-> printw(buf, curses), hud |-> hud]
    /\ pc' = "getch"
    /\ UNCHANGED <<buf, drawn, touched, nan_int, args, cam, rotate, ch, loaded, obj, calls,
                   termcap, curses, stdscr, rows, cols, hud, frames>>

\* getch() returns ERR: the loop sleeps to the end of the frame.
KeyNone ==
    /\ pc = "getch"
    /\ ch' = "ERR"
    /\ pc' = "frame"
    /\ UNCHANGED <<buf, drawn, touched, nan_int, args, cam, rotate, loaded, obj, calls,
                   termcap, curses, stdscr, rows, cols, hud, screen, frames>>

\* Mutant: the sizes are read and the old buffer is kept.
KeyResize_KeepsBuffer ==
    /\ pc = "getch"
    /\ ch' = "KEY_RESIZE"
    /\ \E t \in MainSizes \ {stdscr} :
        /\ stdscr' = t
        /\ rows' = t.rows
        /\ cols' = t.cols
    /\ pc' = "frame"
    /\ UNCHANGED <<buf, drawn, touched, nan_int, args, cam, rotate, loaded, obj, calls,
                   termcap, curses, hud, screen, frames>>

\* getch() returns KEY_RESIZE, ncurses having given stdscr the new size of the
\* terminal: getmaxyx(stdscr, rows, cols); buf = Buffer(cols, rows, lx,
\* logical_y); continue;
KeyResize ==
    /\ pc = "getch"
    /\ ch' = "KEY_RESIZE"
    /\ \E t \in MainSizes \ {stdscr} :
        /\ stdscr' = t
        /\ rows' = t.rows
        /\ cols' = t.cols
        /\ buf' = NewBuffer(t.rows, t.cols)
    /\ pc' = "frame"
    /\ UNCHANGED <<drawn, touched, nan_int, args, cam, rotate, loaded, obj, calls,
                   termcap, curses, hud, screen, frames>>

\* getch() returns q or Q: break; endwin();
KeyQuit ==
    /\ pc = "getch"
    /\ ch' \in {"q", "Q"}
    /\ pc' = "done"
    /\ UNCHANGED <<buf, drawn, touched, nan_int, args, cam, rotate, loaded, obj, calls,
                   termcap, curses, stdscr, rows, cols, hud, screen, frames>>

\* getch() returns a tab: hud = !hud; continue;
KeyTab ==
    /\ pc = "getch"
    /\ ch' = "\t"
    /\ hud' = ~hud
    /\ pc' = "frame"
    /\ UNCHANGED <<buf, drawn, touched, nan_int, args, cam, rotate, loaded, obj, calls,
                   termcap, curses, stdscr, rows, cols, screen, frames>>

\* getch() returns another key: rotate = false; handle_control(ch, cam);
KeyControl ==
    /\ pc = "getch"
    /\ \E key \in MainKeys :
        /\ ch' = key
        /\ cam' = handle_control(key, cam)
    /\ rotate' = FALSE
    /\ pc' = "frame"
    /\ UNCHANGED <<buf, drawn, touched, nan_int, args, loaded, obj, calls,
                   termcap, curses, stdscr, rows, cols, hud, screen, frames>>

Next ==
    \/ SetupNormalize \/ SetupScale \/ SetupFlip
    \/ SetupInvertX \/ SetupInvertY \/ SetupInvertZ
    \/ InitColors \/ MakeView
    \/ Frame \/ ClearBuffer \/ Render \/ Printw
    \/ KeyNone \/ KeyResize \/ KeyQuit \/ KeyTab \/ KeyControl

Spec == Init /\ [][Next]_vars

(***************************************************************************)
(* The claims about main.                                                  *)
(***************************************************************************)
SetupPcs == {"normalize", "scale", "flip_faces", "invert_x", "invert_y", "invert_z"}
LoopPcs == {"frame", "clear", "render", "printw", "getch"}

Blank(b) == \A i \in DOMAIN b.pixels : b.pixels[i] = PixelEmpty

\* C3, the state: when the renderer is about to run, every cell of the
\* buffer holds the empty sentinel.
C3_ClearedAtRender == pc = "render" => Blank(buf)

\* C3, the step: an iteration goes frame, clear, render, printw, getch, and
\* from getch either leaves the loop or starts the next iteration at its head.
C3_Order ==
    /\ pc = "frame" => pc' = "clear"
    /\ pc = "clear" => pc' = "render"
    /\ pc = "render" => pc' = "printw"
    /\ pc = "printw" => pc' = "getch"
    /\ pc = "getch" => pc' \in {"frame", "done"}
    /\ pc \in {"frame", "printw", "getch"} /\ ch' \notin {"KEY_RESIZE"} => buf' = buf

\* C3: in every iteration of the loop clear() runs once, before render and
\* printw, and leaves every cell empty, also in the iteration after a resize
\* or a HUD toggle.
C3_ClearEveryFrame == [](C3_ClearedAtRender) /\ [][C3_Order]_vars

\* C3's case: the frame after a HUD toggle is about to be rendered, and the
\* frame before it put something on the screen.
C3_Witness ==
    /\ pc = "render" /\ ch = "\t" /\ Blank(buf)
    /\ \E i \in DOMAIN screen.cells : screen.cells[i].c # " "

\* The mesh main's set-up starts from: normalized and scaled.
Base == scale(normalize(loaded), SCALE_FACTOR)

Sign(flag) == IF flag THEN 0 - 1 ELSE 1
Count(flag) == IF flag THEN 1 ELSE 0

\* The triple product of a face's vertices in the face's order: its sign
\* tells on which side of the face the origin lies.
Orientation(o, i) ==
    LET a == o.vertices[o.faces[i].v[1]]
        b == o.vertices[o.faces[i].v[2]]
        c == o.vertices[o.faces[i].v[3]]
    IN  a.x * (b.y * c.z - b.z * c.y) - a.y * (b.x * c.z - b.z * c.x)
            + a.z * (b.x * c.y - b.y * c.x)

Mirrorings == Count(args.invert_x) + Count(args.invert_y) + Count(args.invert_z)

\* C6: after set-up every vertex is the base vertex with the chosen
\* coordinates negated, every face is reversed exactly when the mirrorings
\* and the flip are odd in number, and a face's orientation is the base's,
\* inverted exactly when flip_faces was asked for.
C6_MirrorParity ==
    pc \notin SetupPcs =>
        /\ \A i \in DOMAIN obj.vertices :
                obj.vertices[i] = Vec3(Sign(args.invert_x) * Base.vertices[i].x,
                                       Sign(args.invert_y) * Base.vertices[i].y,
                                       Sign(args.invert_z) * Base.vertices[i].z)
        /\ \A i \in DOMAIN obj.faces :
                /\ obj.faces[i] =
                        IF (Mirrorings + Count(args.flip_faces)) % 2 = 1
                        THEN reversed(Base.faces[i]) ELSE Base.faces[i]
                /\ Orientation(obj, i) = Sign(args.flip_faces) * Orientation(Base, i)

\* C6's case: two mirrorings and a flip were applied, the faces are
\* reversed and a face's orientation is inverted.
C6_Witness ==
    /\ pc = "init_colors"
    /\ args.flip_faces /\ args.invert_x /\ args.invert_z /\ ~args.invert_y
    /\ obj.faces[1] = reversed(Base.faces[1])
    /\ obj.vertices # Base.vertices
    /\ Orientation(obj, 1) # 0
    /\ Orientation(obj, 1) = 0 - Orientation(Base, 1)

\* The calls main makes on the mesh, from the options.
ExpectedCalls ==
    <<"normalize", "scale">>
        \o (IF args.flip_faces THEN <<"flip_faces">> ELSE << >>)
        \o (IF args.invert_x THEN <<"invert_x">> ELSE << >>)
        \o (IF args.invert_y THEN <<"invert_y">> ELSE << >>)
        \o (IF args.invert_z THEN <<"invert_z">> ELSE << >>)

IsPrefix(s, t) == Len(s) =< Len(t) /\ s = SubSeq(t, 1, Len(s))

\* C7, the state: the calls made on the mesh are the first of normalize,
\* scale, flip_faces, invert_x, invert_y, invert_z in this order, the
\* optional ones as the options say, and all are made when set-up is over.
C7_FixedOrder ==
    /\ IsPrefix(calls, ExpectedCalls)
    /\ pc \notin SetupPcs => calls = ExpectedCalls

\* C7, the step: the mesh changes only in a call of set-up, and no step
\* changes the materials.
C7_MeshStep ==
    /\ obj' # obj => pc \in SetupPcs /\ Len(calls') = Len(calls) + 1
    /\ pc \notin SetupPcs => obj' = obj /\ calls' = calls
    /\ obj'.materials = obj.materials

\* C7: the mesh is mutated only during set-up, in the fixed order, and
\* never once the loop has started.
C7_SetupOnly == [](C7_FixedOrder) /\ [][C7_MeshStep]_vars

\* C7's case: all four options were applied and the loop is in its second
\* frame, after a key.
C7_Witness ==
    /\ pc = "getch" /\ frames = 2 /\ ch \in MainKeys
    /\ Len(calls) = 6
    /\ obj # loaded

\* The pairs init_pair has registered.
Registered == {e.pair : e \in curses.pairs}

\* The pairs the terminal has room for.
Slots ==
    IF args.color_support /\ termcap.has_colors /\ termcap.can_change_color
    THEN {k \in 1 .. Len(obj.materials) : k < termcap.colors /\ k < termcap.pairs}
    ELSE {}

\* C9: once init_colors is over, pair i+1 is registered exactly for the
\* materials i with i+1 below COLORS and COLOR_PAIRS (none without colour),
\* with the material's clamped colour; a cell on the screen has pair
\* material + 1 when that pair is registered and the default pair otherwise.
C9_ColourDegrades ==
    pc \notin SetupPcs \cup {"init_colors"} =>
        /\ Registered = Slots
        /\ \A e \in curses.pairs : e.fg = e.pair /\ e.bg = 0
        /\ \A k \in Slots :
                \E e \in curses.palette :
                    /\ e.color = k
                    /\ \A q \in curses.palette : q.color = k => q = e
                    /\ e.r = Clamp(obj.materials[k][1], 0, 1000)
                    /\ e.g = Clamp(obj.materials[k][2], 0, 1000)
                    /\ e.b = Clamp(obj.materials[k][3], 0, 1000)
        /\ \A i \in DOMAIN screen.cells : screen.cells[i].pair \in {0} \cup Registered
        /\ pc = "getch" =>
                \A i \in DOMAIN screen.cells :
                    LET m == buf.pixels[i].material
                    IN  screen.cells[i].pair =
                            IF m # << >> /\ m[1] + 1 \in Registered THEN m[1] + 1 ELSE 0

\* C9's case: the terminal has fewer pairs than the mesh has materials; a
\* cell of the first material is shown with pair 1 and a cell of the last
\* material with the default pair.
C9_Witness ==
    /\ pc = "getch"
    /\ Registered = {1}
    /\ \E i, j \in DOMAIN screen.cells :
        /\ buf.pixels[i].material = <<0>> /\ screen.cells[i].pair = 1
        /\ buf.pixels[j].material = <<2>> /\ screen.cells[j].pair = 0

\* C10, the state: in the loop the buffer has the sizes last read from the
\* terminal, a grid of columns x rows cells and the logical width of those
\* sizes.
C10_BufferMatches ==
    pc \in LoopPcs =>
        /\ rows = stdscr.rows /\ cols = stdscr.cols
        /\ buf.x = cols /\ buf.y = rows
        /\ Cardinality(DOMAIN buf.pixels) = cols * rows
        /\ buf.logical_y = logical_y
        /\ buf.logical_x = logical_x_of(rows, cols)

\* C10, the step: reading KEY_RESIZE changes the buffer and the sizes only:
\* the new buffer is empty, and the camera, the HUD flag, the animation
\* flag and the mesh are as before.
C10_ResizeStep ==
    (pc = "getch" /\ ch' = "KEY_RESIZE") =>
        /\ Blank(buf')
        /\ buf'.x = stdscr'.cols /\ buf'.y = stdscr'.rows
        /\ cam' = cam /\ hud' = hud /\ rotate' = rotate /\ obj' = obj
        /\ pc' = "frame"

\* C10: a resize replaces the buffer by a new one of the terminal's sizes
\* and changes nothing else, so every frame uses a buffer of the sizes last
\* read.
C10_Resize == [](C10_BufferMatches) /\ [][C10_ResizeStep]_vars

\* C10's case: a frame is rendered after a resize that changed both sizes,
\* with the animation still on.
C10_Witness ==
    /\ pc = "printw" /\ ch = "KEY_RESIZE" /\ rotate
    /\ buf.x = 2 /\ buf.y = 3
    /\ ~Blank(buf)

=============================================================================
